---- MODULE Spec2Model ----
(***************************************************************************)
(* Stopwatch firmware (src/firmware/main.c): the lap store (save_lap,      *)
(* read_lap), the busy-wait delay and the control loop of main, together   *)
(* with the stopwatch peripheral seen through its CSR registers.           *)
(*                                                                         *)
(* Three programs are modelled over the same state and the same steps:     *)
(*   SpecMain   main() against a free-running device;                      *)
(*   SpecTick   main() against a device that advances one tick on every    *)
(*              register read;                                             *)
(*   SpecStore  any sequence of save_lap() and read_lap(index) calls       *)
(*              against a device that was not reset.                       *)
(***************************************************************************)
EXTENDS Integers, Sequences, FiniteSets

----------------------------------------------------------------------------
(* Program constants *)

MAX_LAPS == 16

LAP_RECORD_SIZE == 3

DELAY_MS == 5000

(* Bounds of the model *)

\* ticks the free-running device may advance during one behaviour
MaxTicks == 1

\* save_lap calls made by the store driver (the 20-append scenario)
MaxAppendCalls == 20

\* index arguments the store driver passes to read_lap
ReadIndices == {-1, 0, 1, MAX_LAPS - 1, MAX_LAPS, MAX_LAPS + 1}

\* elapsed time (in ticks) the device may hold when the program starts:
\* zero, and 256:59.99, where the minutes register no longer fits 8 bits and
\* the next tick carries into it
PowerOnTimes == {0, 1541999}

\* values of a byte the program never initialised (RAM at power-on, the
\* locals m, s, t before the first read_lap, memory outside the lap region)
JunkBytes == {0, 255}

----------------------------------------------------------------------------
(* The peripheral, through its register contract *)

DeviceStates == {"UNINITIALIZED", "COUNTING", "STOPPED"}

\* stopwatch_minutes_read(): elapsed minutes of the device counter
stopwatch_minutes_read(T) == T \div 6000

\* stopwatch_seconds_read(): elapsed seconds within the minute
stopwatch_seconds_read(T) == (T \div 100) % 60

\* stopwatch_ticks_read(): hundredths of a second within the second
stopwatch_ticks_read(T) == T % 100

\* rising edge on the reset line: elapsed time returns to zero
DevAfterReset(st) == "UNINITIALIZED"

\* rising edge on the start line
DevAfterStart(st) == "COUNTING"

\* rising edge on the stop line: a counting device freezes
DevAfterStop(st) == IF st = "COUNTING" THEN "STOPPED" ELSE st

----------------------------------------------------------------------------
(* The lap store: pure parts of save_lap and read_lap *)

LapRegion == 0 .. (MAX_LAPS * LAP_RECORD_SIZE - 1)

\* variant: the conversion saturates instead of truncating
ToUCharSaturate(v) == IF v > 255 THEN 255 ELSE v

\* (unsigned char)v
ToUChar(v) == v % 256

\* variant: the capacity test lets one more record through
AtCapacityOffByOne(count) == count > MAX_LAPS

\* save_lap: if (lap_count >= MAX_LAPS) return;
AtCapacity(count) == count >= MAX_LAPS

\* variant: the record size is left out of the offset
SaveBaseNoStride(count) == count

\* save_lap: int base = lap_count * LAP_RECORD_SIZE;
SaveBase(count) == count * LAP_RECORD_SIZE

\* variant: the count is left as it is
IncCountLost(count) == count

\* save_lap: lap_count++;
IncCount(count) == count + 1

\* lap_mem[off] = (unsigned char)v; a store outside the lap region leaves
\* the region as it is
StoreByte(mem, off, v) ==
    IF off \in DOMAIN mem THEN [mem EXCEPT ![off] = ToUChar(v)] ELSE mem

\* variant: the index test accepts index == lap_count
RejectIndexOffByOne(index, count) == index > count

\* read_lap: if (index >= lap_count) { *m = *s = *t = 0; return; }
RejectIndex(index, count) == index >= count

\* variant: the record after the one asked for
ReadBaseNext(index) == (index + 1) * LAP_RECORD_SIZE

\* read_lap: int base = index * LAP_RECORD_SIZE;
ReadBase(index) == index * LAP_RECORD_SIZE

\* lap_mem[off] as a read: inside the region the stored byte, outside it
\* whatever the bus returns
LoadByte(mem, off) == IF off \in DOMAIN mem THEN {mem[off]} ELSE JunkBytes

\* the byte offsets read_lap(index) loads from
ReadOffsets(index, count) ==
    IF RejectIndex(index, count) THEN {}
    ELSE {ReadBase(index) + k : k \in 0 .. (LAP_RECORD_SIZE - 1)}

\* read_lap(index, &m, &s, &t): the triples <<m, s, t>> it can deliver
read_lap(index, count, mem) ==
    IF RejectIndex(index, count) THEN {<<0, 0, 0>>}
    ELSE {<<a, b, c>> : a \in LoadByte(mem, ReadBase(index) + 0),
                        b \in LoadByte(mem, ReadBase(index) + 1),
                        c \in LoadByte(mem, ReadBase(index) + 2)}

\* variant: the verification reads the slot after the last record
VerifyIndexCount(count) == count

\* main: read_lap(lap_count - 1, ...)
VerifyIndex(count) == count - 1

\* variant: the loop stops one lap early
HaltCondEarly(count) == count >= MAX_LAPS - 1

\* main: if (lap_count >= MAX_LAPS) { stop; break; }
HaltCond(count) == count >= MAX_LAPS

\* delay_ms(ms): while (ms--) { d = 1000; while (d--); } returns after this
\* many busy iterations
delay_ms(ms) == ms * 1000

----------------------------------------------------------------------------
VARIABLES
    pc,          \* position of the CPU
    ret,         \* where save_lap returns to
    lap_mem,     \* the 48 bytes of the lap region
    lap_count,   \* static int lap_count
    base,        \* save_lap's local
    m, s, t,     \* the caller's out-parameters of read_lap
    reset, start, stop,   \* the three control lines
    devState,    \* state of the peripheral
    devTime,     \* elapsed ticks held by the peripheral
    devMode,     \* "free": advances on its own; "per_read": one tick per read
    nTicks,      \* history: ticks the free device has advanced
    cur,         \* history: register values read so far by the running save_lap
    captured,    \* history: register values read by each completed capture
    nAppends,    \* history: save_lap calls that returned
    nDelays,     \* history: delay_ms calls that returned
    nCycles,     \* history: passes through the capacity check of main
    nReset, nStart, nStop,   \* history: writes of 1 to each control line
    nRegReads,   \* history: reads of a device register
    nMemWrites,  \* history: bytes written to lap_mem
    oob          \* history: some access fell outside the lap region

vars == <<pc, ret, lap_mem, lap_count, base, m, s, t, reset, start, stop,
          devState, devTime, devMode, nTicks, cur, captured, nAppends,
          nDelays, nCycles, nReset, nStart, nStop, nRegReads, nMemWrites, oob>>

storeVars == <<lap_mem, lap_count, base, cur, captured, nAppends, nMemWrites>>
lineVars == <<reset, start, stop, nReset, nStart, nStop>>
devVars == <<devState, devTime, devMode, nTicks>>
outVars == <<m, s, t, oob>>
loopVars == <<nDelays, nCycles>>

SavePcs == {"save_check", "save_minutes", "save_seconds", "save_ticks", "save_inc"}

----------------------------------------------------------------------------
(* Initial states *)

InitCommon ==
    /\ \E j \in JunkBytes :
          /\ lap_mem = [o \in LapRegion |-> j]
          /\ m = j /\ s = j /\ t = j
    /\ lap_count = 0
    /\ base = 0
    /\ reset = 0 /\ start = 0 /\ stop = 0
    /\ devTime \in PowerOnTimes
    /\ nTicks = 0
    /\ cur = <<>>
    /\ captured = <<>>
    /\ nAppends = 0 /\ nDelays = 0 /\ nCycles = 0
    /\ nReset = 0 /\ nStart = 0 /\ nStop = 0
    /\ nRegReads = 0 /\ nMemWrites = 0
    /\ oob = FALSE

InitMain ==
    /\ InitCommon
    /\ pc = "reset_hi" /\ ret = "verify"
    /\ devState \in DeviceStates
    /\ devMode = "free"

InitTick ==
    /\ InitCommon
    /\ pc = "reset_hi" /\ ret = "verify"
    /\ devState \in DeviceStates
    /\ devMode = "per_read"

InitStore ==
    /\ InitCommon
    /\ pc = "api" /\ ret = "api"
    /\ devState = "COUNTING"
    /\ devMode = "free"

----------------------------------------------------------------------------
(* The device *)

\* the free-running device advances by one tick
DevTick ==
    /\ devMode = "free"
    /\ devState = "COUNTING"
    /\ nTicks < MaxTicks
    /\ devTime' = devTime + 1
    /\ nTicks' = nTicks + 1
    /\ UNCHANGED <<pc, ret, devState, devMode>>
    /\ UNCHANGED <<storeVars, lineVars, outVars, loopVars, nRegReads>>

\* elapsed time after a register read
TimeAfterRead ==
    IF devMode = "per_read" /\ devState = "COUNTING" THEN devTime + 1
    ELSE devTime

----------------------------------------------------------------------------
(* main: INIT *)

\* stopwatch_reset_write(1);
ResetHigh ==
    /\ pc = "reset_hi"
    /\ reset' = 1
    /\ nReset' = nReset + 1
    /\ devState' = DevAfterReset(devState)
    /\ devTime' = 0
    /\ pc' = "reset_lo"
    /\ UNCHANGED <<ret, start, stop, nStart, nStop, devMode, nTicks>>
    /\ UNCHANGED <<storeVars, outVars, loopVars, nRegReads>>

\* variant: the start command is left out
ResetLowSkipStart ==
    /\ pc = "reset_lo"
    /\ reset' = 0
    /\ pc' = "delay"
    /\ UNCHANGED <<ret, start, stop, nReset, nStart, nStop>>
    /\ UNCHANGED <<storeVars, devVars, outVars, loopVars, nRegReads>>

\* stopwatch_reset_write(0);
ResetLow ==
    /\ pc = "reset_lo"
    /\ reset' = 0
    /\ pc' = "start_hi"
    /\ UNCHANGED <<ret, start, stop, nReset, nStart, nStop>>
    /\ UNCHANGED <<storeVars, devVars, outVars, loopVars, nRegReads>>

\* stopwatch_start_write(1);
StartHigh ==
    /\ pc = "start_hi"
    /\ start' = 1
    /\ nStart' = nStart + 1
    /\ devState' = DevAfterStart(devState)
    /\ pc' = "start_lo"
    /\ UNCHANGED <<ret, reset, stop, nReset, nStop, devTime, devMode, nTicks>>
    /\ UNCHANGED <<storeVars, outVars, loopVars, nRegReads>>

\* variant: the second write of the start pulse goes to the reset line
StartLowWrongLine ==
    /\ pc = "start_lo"
    /\ reset' = 0
    /\ pc' = "delay"
    /\ UNCHANGED <<ret, start, stop, nReset, nStart, nStop>>
    /\ UNCHANGED <<storeVars, devVars, outVars, loopVars, nRegReads>>

\* stopwatch_start_write(0);
StartLow ==
    /\ pc = "start_lo"
    /\ start' = 0
    /\ pc' = "delay"
    /\ UNCHANGED <<ret, reset, stop, nReset, nStart, nStop>>
    /\ UNCHANGED <<storeVars, devVars, outVars, loopVars, nRegReads>>

----------------------------------------------------------------------------
(* main: the sampling loop *)

\* delay_ms(5000); then control enters save_lap
Wait ==
    /\ pc = "delay"
    /\ delay_ms(DELAY_MS) \in Nat
    /\ nDelays' = nDelays + 1
    /\ pc' = "save_check"
    /\ UNCHANGED <<ret, nCycles>>
    /\ UNCHANGED <<storeVars, lineVars, devVars, outVars, nRegReads>>

\* save_lap: the capacity test and the computation of base
SaveCheck ==
    /\ pc = "save_check"
    /\ IF AtCapacity(lap_count)
       THEN /\ pc' = ret
            /\ nAppends' = nAppends + 1
            /\ base' = base
       ELSE /\ pc' = "save_minutes"
            /\ nAppends' = nAppends
            /\ base' = SaveBase(lap_count)
    /\ UNCHANGED <<ret, lap_mem, lap_count, cur, captured, nMemWrites>>
    /\ UNCHANGED <<lineVars, devVars, outVars, loopVars, nRegReads>>

\* one statement lap_mem[base + k] = (unsigned char)<register read>
SaveField(here, k, value, next) ==
    /\ pc = here
    /\ lap_mem' = StoreByte(lap_mem, base + k, value)
    /\ oob' = (oob \/ (base + k) \notin LapRegion)
    /\ cur' = Append(cur, value)
    /\ nRegReads' = nRegReads + 1
    /\ nMemWrites' = nMemWrites + 1
    /\ devTime' = TimeAfterRead
    /\ pc' = next
    /\ UNCHANGED <<ret, lap_count, base, captured, nAppends, m, s, t>>
    /\ UNCHANGED <<lineVars, devState, devMode, nTicks, loopVars>>

\* lap_mem[base + 0] = (unsigned char)stopwatch_minutes_read();
SaveMinutes ==
    SaveField("save_minutes", 0, stopwatch_minutes_read(devTime), "save_seconds")

\* variant: the seconds byte goes to the slot of the minutes byte
SaveSecondsWrongSlot ==
    SaveField("save_seconds", 0, stopwatch_seconds_read(devTime), "save_ticks")

\* variant: the second field is taken from the ticks register
SaveSecondsReadsTicks ==
    SaveField("save_seconds", 1, stopwatch_ticks_read(devTime), "save_ticks")

\* lap_mem[base + 1] = (unsigned char)stopwatch_seconds_read();
SaveSeconds ==
    SaveField("save_seconds", 1, stopwatch_seconds_read(devTime), "save_ticks")

\* variant: the third field is taken from the seconds register
SaveTicksFromSeconds ==
    SaveField("save_ticks", 2, stopwatch_seconds_read(devTime), "save_inc")

\* lap_mem[base + 2] = (unsigned char)stopwatch_ticks_read();
SaveTicks ==
    SaveField("save_ticks", 2, stopwatch_ticks_read(devTime), "save_inc")

\* lap_count++; and return
SaveInc ==
    /\ pc = "save_inc"
    /\ lap_count' = IncCount(lap_count)
    /\ captured' = Append(captured, cur)
    /\ cur' = <<>>
    /\ nAppends' = nAppends + 1
    /\ pc' = ret
    /\ UNCHANGED <<ret, lap_mem, base, nMemWrites>>
    /\ UNCHANGED <<lineVars, devVars, outVars, loopVars, nRegReads>>

\* the call read_lap(index, &m, &s, &t)
CallReadLap(index, next) ==
    /\ \E r \in read_lap(index, lap_count, lap_mem) :
          m' = r[1] /\ s' = r[2] /\ t' = r[3]
    /\ oob' = (oob \/ ~(ReadOffsets(index, lap_count) \subseteq LapRegion))
    /\ pc' = next
    /\ UNCHANGED ret
    /\ UNCHANGED <<storeVars, lineVars, devVars, loopVars, nRegReads>>

\* read_lap(lap_count - 1, &m, &s, &t);
Verify ==
    /\ pc = "verify"
    /\ CallReadLap(VerifyIndex(lap_count), "check")

\* variant: the delay lies outside the loop
CheckSkipDelay ==
    /\ pc = "check"
    /\ nCycles' = nCycles + 1
    /\ pc' = IF HaltCond(lap_count) THEN "stop_hi" ELSE "save_check"
    /\ UNCHANGED <<ret, nDelays>>
    /\ UNCHANGED <<storeVars, lineVars, devVars, outVars, nRegReads>>

\* variant: the loop encloses the reset and start commands
CheckRestart ==
    /\ pc = "check"
    /\ nCycles' = nCycles + 1
    /\ pc' = IF HaltCond(lap_count) THEN "stop_hi" ELSE "reset_hi"
    /\ UNCHANGED <<ret, nDelays>>
    /\ UNCHANGED <<storeVars, lineVars, devVars, outVars, nRegReads>>

\* if (lap_count >= MAX_LAPS) {...; break;} else the next cycle
Check ==
    /\ pc = "check"
    /\ nCycles' = nCycles + 1
    /\ pc' = IF HaltCond(lap_count) THEN "stop_hi" ELSE "delay"
    /\ UNCHANGED <<ret, nDelays>>
    /\ UNCHANGED <<storeVars, lineVars, devVars, outVars, nRegReads>>

\* stopwatch_stop_write(1);
StopHigh ==
    /\ pc = "stop_hi"
    /\ stop' = 1
    /\ nStop' = nStop + 1
    /\ devState' = DevAfterStop(devState)
    /\ pc' = "stop_lo"
    /\ UNCHANGED <<ret, reset, start, nReset, nStart, devTime, devMode, nTicks>>
    /\ UNCHANGED <<storeVars, outVars, loopVars, nRegReads>>

\* variant: the break is missing and the loop goes on
StopLowNoBreak ==
    /\ pc = "stop_lo"
    /\ stop' = 0
    /\ pc' = "delay"
    /\ UNCHANGED <<ret, reset, start, nReset, nStart, nStop>>
    /\ UNCHANGED <<storeVars, devVars, outVars, loopVars, nRegReads>>

\* stopwatch_stop_write(0); break;
StopLow ==
    /\ pc = "stop_lo"
    /\ stop' = 0
    /\ pc' = "halted"
    /\ UNCHANGED <<ret, reset, start, nReset, nStart, nStop>>
    /\ UNCHANGED <<storeVars, devVars, outVars, loopVars, nRegReads>>

\* variant: the final loop is missing and control falls back into the loop
HangRestart ==
    /\ pc = "halted"
    /\ pc' = "delay"
    /\ UNCHANGED <<ret, storeVars, lineVars, devVars, outVars, loopVars, nRegReads>>

\* while (1);
Hang ==
    /\ pc = "halted"
    /\ pc' = "halted"
    /\ UNCHANGED <<ret, storeVars, lineVars, devVars, outVars, loopVars, nRegReads>>

----------------------------------------------------------------------------
(* The store driver: any sequence of save_lap() and read_lap(index) *)

\* a caller invokes save_lap()
ApiSaveLap ==
    /\ pc = "api"
    /\ nAppends < MaxAppendCalls
    /\ pc' = "save_check"
    /\ UNCHANGED <<ret, storeVars, lineVars, devVars, outVars, loopVars, nRegReads>>

\* a caller invokes read_lap(index, &m, &s, &t)
ApiReadLap(index) ==
    /\ pc = "api"
    /\ CallReadLap(index, "api")

----------------------------------------------------------------------------
(* Specifications *)

SaveLap == SaveCheck \/ SaveMinutes \/ SaveSeconds \/ SaveTicks \/ SaveInc

Firmware ==
    \/ ResetHigh \/ ResetLow \/ StartHigh \/ StartLow
    \/ Wait \/ SaveLap \/ Verify \/ Check
    \/ StopHigh \/ StopLow \/ Hang

NextMain == Firmware \/ DevTick

NextTick == Firmware

NextStore == ApiSaveLap \/ (\E i \in ReadIndices : ApiReadLap(i)) \/ SaveLap \/ DevTick

SpecMain == InitMain /\ [][NextMain]_vars

\* the CPU never stops executing instructions
FairMain == SpecMain /\ WF_vars(Firmware)

SpecTick == InitTick /\ [][NextTick]_vars

SpecStore == InitStore /\ [][NextStore]_vars

\* the firmware and the store driver together
SpecAll == (InitMain \/ InitStore) /\ [][NextMain \/ NextStore]_vars

TypeOK ==
    /\ lap_mem \in [LapRegion -> 0 .. 255]
    /\ lap_count \in Int
    /\ m \in 0 .. 255 /\ s \in 0 .. 255 /\ t \in 0 .. 255
    /\ reset \in {0, 1} /\ start \in {0, 1} /\ stop \in {0, 1}
    /\ devState \in DeviceStates

----------------------------------------------------------------------------
(* Properties *)

\* the low 8 bits of a register value
Low8(v) == v - 256 * (v \div 256)

\* record i as it lies in the lap region
Record(i) == <<lap_mem[LAP_RECORD_SIZE * i], lap_mem[LAP_RECORD_SIZE * i + 1],
               lap_mem[LAP_RECORD_SIZE * i + 2]>>

\* <<minutes, seconds, ticks>> order: a earlier than b
Earlier(a, b) ==
    \/ a[1] < b[1]
    \/ a[1] = b[1] /\ a[2] < b[2]
    \/ a[1] = b[1] /\ a[2] = b[2] /\ a[3] < b[3]

\* C1: in every reachable state of main and after any sequence of save_lap
\* and read_lap calls, 0 <= lap_count <= MAX_LAPS.
C1CountBounded == lap_count \in 0 .. MAX_LAPS

C1Witness == lap_count = MAX_LAPS /\ nAppends > MAX_LAPS

\* C2: from an empty store, after n <= MAX_LAPS save_lap calls lap_count is
\* n: each call made below capacity adds exactly one.
C2CountIsAppends == nAppends <= MAX_LAPS => lap_count = nAppends

C2Witness == pc = "api" /\ nAppends = MAX_LAPS /\ lap_count = MAX_LAPS

\* C3: once lap_count is MAX_LAPS no step changes lap_count or any of the
\* 48 bytes, whatever the device holds and however many save_lap calls follow.
C3FullStoreNoOp ==
    [][lap_count = MAX_LAPS => (lap_count' = MAX_LAPS /\ lap_mem' = lap_mem)]_vars

C3Witness == pc = "api" /\ nAppends = MAX_LAPS + 4 /\ lap_count = MAX_LAPS

\* C4 as stated: read_lap(i) for 0 <= i < lap_count delivers exactly the three
\* register values read by the i-th save_lap.
C4ReadExact ==
    \A i \in 0 .. (lap_count - 1) :
        read_lap(i, lap_count, lap_mem) = {captured[i + 1]}

\* C4 amended: read_lap(i) for 0 <= i < lap_count delivers the low 8 bits of
\* each of the three register values read by the i-th save_lap.
C4ReadLow8 ==
    \A i \in 0 .. (lap_count - 1) :
        read_lap(i, lap_count, lap_mem) =
            {<<Low8(captured[i + 1][1]), Low8(captured[i + 1][2]),
               Low8(captured[i + 1][3])>>}

\* a read_lap(0) has delivered a record whose minutes register had left 8 bits
C4Witness ==
    /\ pc = "api" /\ lap_count > 0
    /\ captured[1][1] > 255
    /\ captured[1][2] > 0
    /\ <<m, s, t>> = <<Low8(captured[1][1]), captured[1][2], captured[1][3]>>

\* C5: read_lap(i) with i >= lap_count delivers {0,0,0} and returns, leaving
\* lap_count and every stored byte as they were.
C5ReadBeyondCount ==
    [][\A i \in ReadIndices :
          (ApiReadLap(i) /\ i >= lap_count) =>
              /\ m' = 0 /\ s' = 0 /\ t' = 0
              /\ pc' = "api"
              /\ lap_count' = lap_count
              /\ lap_mem' = lap_mem]_vars

\* a read of an empty store has replaced the junk in m, s, t by zeros
C5Witness ==
    /\ pc = "api" /\ lap_count = 0
    /\ lap_mem[0] = 255
    /\ m = 0 /\ s = 0 /\ t = 0

\* C6 as stated: read_lap(index) delivers the stored record only when
\* 0 <= index < lap_count; for every other index, the negative ones included,
\* it delivers {0,0,0} and touches no byte outside the lap region.
C6ReadOnlyInRange ==
    [][\A i \in ReadIndices :
          ApiReadLap(i) =>
              IF 0 <= i /\ i < lap_count
              THEN <<m', s', t'>> = Record(i)
              ELSE /\ <<m', s', t'>> = <<0, 0, 0>>
                   /\ ReadOffsets(i, lap_count) \subseteq LapRegion]_vars

\* C7: main leaves its sampling loop: it reaches the final idle loop, and is
\* there only after exactly MAX_LAPS cycles with MAX_LAPS records stored.
C7Halts ==
    /\ <>(pc = "halted")
    /\ [](pc = "halted" =>
            /\ nCycles = MAX_LAPS /\ nDelays = MAX_LAPS /\ nAppends = MAX_LAPS
            /\ lap_count = MAX_LAPS)

C7Witness == pc = "halted" /\ nCycles = MAX_LAPS /\ lap_count = MAX_LAPS

\* C8: with a device that advances one tick on every register read, each
\* stored record is strictly later, in <<minutes, seconds, ticks>> order,
\* than the record before it.
C8RecordsIncrease ==
    \A i \in 0 .. (lap_count - 2) : Earlier(Record(i), Record(i + 1))

C8Witness == pc = "halted" /\ lap_count = MAX_LAPS /\ devMode = "per_read"

\* C9: reset and start are each written 1 at most once, and exactly once by
\* the time the loop runs; the reset pulse is over before the start pulse
\* begins; both pulses are over before the first delay, the first register
\* read and the first write to the lap region.
C9InitOnce ==
    /\ nReset <= 1 /\ nStart <= 1
    /\ (nStart = 1 => nReset = 1 /\ reset = 0)
    /\ (nDelays > 0 \/ nRegReads > 0 \/ nMemWrites > 0 \/ nAppends > 0)
          => (nReset = 1 /\ nStart = 1 /\ reset = 0 /\ start = 0)
    /\ (pc = "halted" => nReset = 1 /\ nStart = 1)

C9Witness == pc = "halted" /\ nReset = 1 /\ nStart = 1 /\ nDelays = MAX_LAPS

\* C10: a control line that is 1 is written 0 by the very next step of the
\* CPU, which touches no other line, no device register and no stored byte;
\* so at most one line is 1 at any time.
C10Pulses ==
    /\ [](reset + start + stop <= 1)
    /\ [][(pc' # pc /\ reset + start + stop = 1) =>
            /\ reset' = 0 /\ start' = 0 /\ stop' = 0
            /\ nReset' = nReset /\ nStart' = nStart /\ nStop' = nStop
            /\ nRegReads' = nRegReads /\ nMemWrites' = nMemWrites
            /\ lap_mem' = lap_mem /\ <<m', s', t'>> = <<m, s, t>>]_vars

C10Witness == stop = 1 /\ reset = 0 /\ start = 0 /\ nReset = 1 /\ nStart = 1

\* C11: once main is in its final idle loop it stays there, and no control
\* line is written, no register is read, no delay or save_lap runs and
\* neither lap_count nor any stored byte changes.
C11HaltedInert ==
    [][pc = "halted" =>
          /\ pc' = "halted"
          /\ <<reset', start', stop'>> = <<reset, start, stop>>
          /\ <<nReset', nStart', nStop'>> = <<nReset, nStart, nStop>>
          /\ nRegReads' = nRegReads /\ nMemWrites' = nMemWrites
          /\ nDelays' = nDelays /\ nAppends' = nAppends /\ nCycles' = nCycles
          /\ lap_count' = lap_count /\ lap_mem' = lap_mem]_vars

C11Witness == pc = "halted" /\ nStop = 1 /\ stop = 0 /\ nRegReads = 3 * MAX_LAPS

\* C12: the stop line is written and the final idle loop entered only with
\* lap_count >= MAX_LAPS; a capacity check that finds lap_count < MAX_LAPS
\* goes back to the delay.
C12StopOnlyAtCapacity ==
    /\ []((nStop > 0 \/ stop = 1 \/ pc \in {"stop_hi", "stop_lo", "halted"})
            => lap_count >= MAX_LAPS)
    /\ [][(pc = "check" /\ pc' # pc /\ lap_count < MAX_LAPS) =>
            (pc' = "delay" /\ nStop' = 0 /\ stop' = 0)]_vars

C12Witness == pc = "delay" /\ nCycles = MAX_LAPS - 1 /\ lap_count = MAX_LAPS - 1

\* C13: the three bytes of every record below lap_count are the same after
\* each step as before it.
C13RecordsImmutable ==
    [][\A i \in 0 .. (lap_count - 1) :
          \A k \in 0 .. (LAP_RECORD_SIZE - 1) :
              lap_mem'[LAP_RECORD_SIZE * i + k] = lap_mem[LAP_RECORD_SIZE * i + k]]_vars

\* all records are stored, further calls were made and the device has moved on
C13Witness ==
    /\ lap_count = MAX_LAPS /\ nAppends = MaxAppendCalls /\ nTicks > 0
    /\ captured[1][1] # stopwatch_minutes_read(devTime)

\* the register the k-th statement of save_lap reads, at elapsed time T
FieldRegister(k, T) ==
    IF k = 0 THEN stopwatch_minutes_read(T)
    ELSE IF k = 1 THEN stopwatch_seconds_read(T)
    ELSE stopwatch_ticks_read(T)

\* C14: the k-th write of a save_lap call (k = 0, 1, 2: minutes, seconds,
\* ticks) changes at most the byte at offset 3*i + k, i the count before the
\* call, which lies in 0..47; every other byte keeps its value, so the bytes
\* written so far are exactly offsets 0 .. 3*i + k.
C14WriteOffsets ==
    /\ [](nMemWrites = LAP_RECORD_SIZE * lap_count + Len(cur))
    /\ [][nMemWrites' # nMemWrites =>
            LET off == LAP_RECORD_SIZE * lap_count + Len(cur) IN
            /\ Len(cur) < LAP_RECORD_SIZE
            /\ off \in LapRegion
            /\ lap_count' = lap_count
            /\ lap_mem'[off] = Low8(FieldRegister(Len(cur), devTime))
            /\ \A o \in LapRegion \ {off} : lap_mem'[o] = lap_mem[o]]_vars

\* the last byte of the region has been written over junk
C14Witness ==
    /\ lap_count = MAX_LAPS /\ nMemWrites = LAP_RECORD_SIZE * MAX_LAPS
    /\ captured[MAX_LAPS][3] = 99 /\ lap_mem[LAP_RECORD_SIZE * MAX_LAPS - 1] = 99

\* C15: each cycle of main is delay, save_lap, read_lap, capacity check, in
\* that order: save_lap is entered only by the step that ends a delay, its
\* return leads to the verification read and that to the check; the delays
\* done are as many as the save_lap calls returned, or one more.
C15CycleOrder ==
    /\ [](/\ nDelays \in {nAppends, nAppends + 1}
          /\ (pc \in SavePcs => nDelays = nAppends + 1)
          /\ (pc \in {"verify", "check"} => nDelays = nAppends /\ nAppends = nCycles + 1))
    /\ [][/\ (pc' = "save_check" /\ pc # "save_check") =>
               (pc = "delay" /\ nDelays' = nDelays + 1)
          /\ (nAppends' # nAppends) => (nAppends' = nAppends + 1 /\ pc' = "verify")
          /\ (pc = "verify" /\ pc' # pc) => pc' = "check"
          /\ (pc = "delay" /\ pc' # pc) => pc' = "save_check"]_vars

C15Witness == pc = "check" /\ nDelays = 2 /\ nAppends = 2 /\ nCycles = 1

\* C16: the stop line is written 1 at most once, and exactly once by the
\* time main idles; it is written in the cycle whose save_lap made lap_count
\* MAX_LAPS; after that write the only device access is the write of 0 that
\* ends the pulse.
C16StopOnceLast ==
    /\ [](/\ nStop <= 1
          /\ (pc = "halted" => nStop = 1 /\ stop = 0)
          /\ (nStop = 1 =>
                 /\ lap_count = MAX_LAPS /\ nAppends = MAX_LAPS
                 /\ nCycles = MAX_LAPS /\ nDelays = MAX_LAPS))
    /\ [][nStop = 1 =>
            /\ nStop' = 1 /\ nReset' = nReset /\ nStart' = nStart
            /\ reset' = reset /\ start' = start
            /\ nRegReads' = nRegReads
            /\ (stop' # stop => stop = 1 /\ stop' = 0)]_vars

C16Witness == pc = "halted" /\ nStop = 1 /\ stop = 0 /\ nCycles = MAX_LAPS

\* C17: every byte save_lap has stored is the register value it read modulo
\* 256, also for values of 256 and more, and read_lap delivers that byte.
C17StoredLow8 ==
    /\ \A i \in 0 .. (lap_count - 1) : \A k \in 1 .. LAP_RECORD_SIZE :
          /\ lap_mem[LAP_RECORD_SIZE * i + k - 1] = captured[i + 1][k] % 256
          /\ \A r \in read_lap(i, lap_count, lap_mem) : r[k] = captured[i + 1][k] % 256
    /\ \A k \in 1 .. Len(cur) :
          lap_mem[LAP_RECORD_SIZE * lap_count + k - 1] = cur[k] % 256

\* a minutes register of 257 has been stored as 1 and read back
C17Witness ==
    /\ pc = "api" /\ lap_count > 0
    /\ captured[1][1] = 257 /\ lap_mem[0] = 1 /\ m = 1

\* C18: save_lap reads the minutes, seconds and ticks registers in that
\* order, one per step, each at the time the device then holds, and
\* lap_count changes only after the third byte is written.
C18SequentialReads ==
    [][/\ nRegReads' # nRegReads =>
            /\ nRegReads' = nRegReads + 1
            /\ Len(cur) < LAP_RECORD_SIZE
            /\ cur' = Append(cur, FieldRegister(Len(cur), devTime))
            /\ lap_count' = lap_count
       /\ lap_count' # lap_count =>
            /\ Len(cur) = LAP_RECORD_SIZE
            /\ nMemWrites = LAP_RECORD_SIZE * lap_count'
            /\ nRegReads' = nRegReads /\ nMemWrites' = nMemWrites
            /\ captured' = Append(captured, cur)]_vars

\* a stored record whose fields, taken together, name a time the device
\* never held: it advanced between two of the three reads
C18Witness ==
    \E i \in 1 .. Len(captured) :
        /\ i <= lap_count
        /\ (6000 * captured[i][1] + 100 * captured[i][2] + captured[i][3])
              \notin (devTime - nTicks) .. devTime

\* C19: the verification read of main is made with index lap_count - 1,
\* which is at least 0 and below lap_count, so it does not take the zero
\* fallback and touches no byte outside the region; it delivers the record
\* stored by the save_lap of the same cycle.
C19VerifyInRange ==
    /\ pc = "verify" =>
          /\ lap_count >= 1 /\ lap_count = nCycles + 1
          /\ VerifyIndex(lap_count) = lap_count - 1
          /\ ~RejectIndex(VerifyIndex(lap_count), lap_count)
          /\ ReadOffsets(VerifyIndex(lap_count), lap_count) \subseteq LapRegion
    /\ pc = "check" =>
          /\ Len(captured) = nCycles + 1
          /\ <<m, s, t>> = Record(nCycles)
          /\ <<m, s, t>> = <<Low8(captured[nCycles + 1][1]),
                             Low8(captured[nCycles + 1][2]),
                             Low8(captured[nCycles + 1][3])>>
    /\ ~oob

\* the verification read has delivered a record that is not all zero
C19Witness ==
    /\ pc = "check" /\ nCycles = MAX_LAPS - 1
    /\ t = 1 /\ captured[MAX_LAPS] = <<0, 0, 1>>

\* C20: every register read of save_lap in main finds the device COUNTING,
\* and the device is STOPPED whenever main is in its final idle loop.
C20DeviceState ==
    /\ (pc \in {"save_minutes", "save_seconds", "save_ticks"} => devState = "COUNTING")
    /\ (nRegReads > 0 /\ nStop = 0 => devState = "COUNTING")
    /\ (pc = "halted" => devState = "STOPPED")

C20Witness ==
    /\ pc = "halted" /\ devState = "STOPPED" /\ nRegReads = LAP_RECORD_SIZE * MAX_LAPS

====
